---- MODULE Spec2Model ----
(***************************************************************************)
(* Model of the request handlers of the "doctor" document-conversion       *)
(* service: the Flask API (src/src/api.py), the legacy Flask server        *)
(* (src/src/server.py) and the Django views (src/doctor/views.py).         *)
(*                                                                         *)
(* One request is handled at a time.  A handler action takes the request   *)
(* inputs (file name, raw OCR flag, the outcome each external tool would   *)
(* produce, the tool that fails to run) and records the tools it invoked,  *)
(* in order, the response it produced and the files it left on disk.       *)
(*                                                                         *)
(* A second specification, SpecConc, runs two requests step by step in     *)
(* two workers that share the directory of temporary files.                *)
(***************************************************************************)
EXTENDS Integers, Sequences, FiniteSets, TLC

VARIABLES handler, req, calls, resp, files,
          proc, disk, issued

\* The request handled as a whole.
seqvars == <<handler, req, calls, resp, files>>

\* The workers, the temporary files on disk, the number of uuids drawn.
concvars == <<proc, disk, issued>>

vars == <<handler, req, calls, resp, files, proc, disk, issued>>

---------------------------------------------------------------------------
(* Bounds *)

\* Longest text (in characters) a tool outputs.
MaxLen == 2

---------------------------------------------------------------------------
(* Texts and Python string operations *)

Chars == {" ", "x"}

Texts == UNION {[1..n -> Chars] : n \in 0..MaxLen}

RECURSIVE LStrip(_)
LStrip(s) == IF s # <<>> /\ Head(s) = " " THEN LStrip(Tail(s)) ELSE s

RECURSIVE RStrip(_)
RStrip(s) == IF s # <<>> /\ s[Len(s)] = " " THEN RStrip(SubSeq(s, 1, Len(s) - 1)) ELSE s

\* str.strip(): leading and trailing whitespace removed.
Strip(s) == RStrip(LStrip(s))

\* A diagnostic is Python None or a str; a response may lack it altogether.
ErrNone == [t |-> "none", v |-> ""]

ErrStr(s) == [t |-> "str", v |-> s]

ErrAbsent == [t |-> "absent", v |-> ""]

\* An exit code is an int as a tool returns it, or its decimal string.
CodeInt(n) == [t |-> "int", v |-> n]

CodeAbsent == [t |-> "absent", v |-> 0]

\* str(err): None becomes the text "None", a str is unchanged.
PyStrErr(e) == IF e.t = "none" THEN ErrStr("None") ELSE e

\* str(returncode): the int becomes its decimal string.
PyStrCode(c) == [t |-> "str", v |-> c.v]

---------------------------------------------------------------------------
(* Requests *)

\* The value of a query parameter that was not sent.
Absent == "<absent>"

\* Raw values of the OCR flag on the wire; requests sends a bool as
\* "True" / "False".
Flags == {Absent, "True", "False", ""}

\* The caller allows OCR exactly when it sent the flag as true.
CallerPermitsOcr(r) == r.flag = "True"

Formats == {"pdf", "doc", "docx", "html", "txt", "wpd"}

NonPdfFormats == Formats \ {"pdf"}

\* A file name as its "."-separated components; one component means that
\* the name declares no extension.
Filenames == {<<"f", e>> : e \in Formats \cup {"rtf"}} \cup {<<"f">>, <<"pdf">>}

\* What one external tool returns: (content, err, returncode).
ToolOuts == [content : Texts, err : {ErrNone, ErrStr("stderr")}, rc : {0, 1}]

DefaultOut == [content |-> <<>>, err |-> ErrNone, rc |-> 0]

DefaultReq ==
    [filename |-> <<"f">>, flag |-> Absent, valid |-> "ok", sniffed |-> "pdf",
     primary |-> DefaultOut, ocr |-> DefaultOut, crash |-> "none", pages |-> 0]

---------------------------------------------------------------------------
(* Responses *)

HTTP_OK == 200

NOT_ACCEPTABLE == 406

BAD_REQUEST == 400

INTERNAL_SERVER_ERROR == 500

\* Status 0: no HTTP status has been set (no response yet, or a raw tuple
\* returned by a view of the legacy server).
NoResp ==
    [status |-> 0, kind |-> "none", fields |-> {}, content |-> <<>>,
     err |-> ErrAbsent, code |-> CodeAbsent, byocr |-> FALSE,
     success |-> FALSE, extension |-> "", page_count |-> [t |-> "absent", v |-> 0],
     pdf |-> [pages |-> <<>>, stripped |-> FALSE], msg |-> "", raised |-> "none"]

Outcome(rsp, cs, fs) == [resp |-> rsp, calls |-> cs, files |-> fs]

\* An exception that leaves a Flask view: the framework answers 500.
FlaskRaised(exc) ==
    [NoResp EXCEPT !.status = INTERNAL_SERVER_ERROR, !.kind = "html", !.raised = exc]

---------------------------------------------------------------------------
(* src/src/api.py : extract_content *)

\* do_ocr after lines 62-64: the bool False when the parameter is absent,
\* the bool True when it is the text "True", otherwise the text itself.
api_do_ocr(flag) ==
    IF flag = Absent THEN [t |-> "bool", b |-> FALSE, s |-> ""]
    ELSE IF flag = "True" THEN [t |-> "bool", b |-> TRUE, s |-> ""]
    ELSE [t |-> "str", b |-> FALSE, s |-> flag]

\* Python truth value of do_ocr: a str is true when it is not empty.
Truthy(x) == IF x.t = "bool" THEN x.b ELSE x.s # ""

\* str.split(".")[-1]: the last "."-separated component, the whole name
\* when it holds no ".".
split_last(filename) == filename[Len(filename)]

\* A resolver that falls back to the sniffed extension of the content when
\* the name declares none.
routing_extension_sniffed(r) ==
    IF Len(r.filename) > 1 THEN split_last(r.filename) ELSE r.sniffed

\* extension = f.filename.split(".")[-1]: the key the extractor is chosen
\* by; the content of the upload is not looked at.
routing_extension(r) == split_last(r.filename)

\* jsonify({"content": content, "err": str(err), "error_code": str(returncode)})
api_jsonify(content, err, returncode) ==
    [NoResp EXCEPT !.status = HTTP_OK, !.kind = "json",
                   !.fields = {"content", "err", "error_code"},
                   !.content = content, !.err = PyStrErr(err),
                   !.code = PyStrCode(CodeInt(returncode))]

\* A handler that invokes the primary extractor a second time when it fails.
api_extract_content_retried(r) ==
    Outcome(api_jsonify(r.primary.content, r.primary.err, r.primary.rc),
            IF r.crash = "pdftotext" THEN <<"pdftotext", "pdftotext">>
            ELSE <<"pdftotext">>,
            {})

api_extract_content(r) ==
    LET do_ocr == api_do_ocr(r.flag)
        extension == routing_extension(r)
    IN  IF extension = "pdf" THEN
            IF r.crash = "pdftotext" THEN
                Outcome(FlaskRaised("ToolInvocationError"), <<"pdftotext">>, {})
            ELSE IF Truthy(do_ocr) /\ Len(Strip(r.primary.content)) = 0 THEN
                IF r.crash = "rasterize" THEN
                    Outcome(FlaskRaised("ToolInvocationError"),
                            <<"pdftotext", "rasterize">>, {})
                ELSE IF r.crash = "ocr" THEN
                    Outcome(FlaskRaised("ToolInvocationError"),
                            <<"pdftotext", "rasterize", "ocr">>, {})
                ELSE IF r.ocr.content = <<>> THEN
                    Outcome(api_jsonify(<<>>, ErrStr("Unable to extract document content"), 1),
                            <<"pdftotext", "rasterize", "ocr">>, {})
                ELSE
                    Outcome(api_jsonify(r.ocr.content, r.ocr.err, r.ocr.rc),
                            <<"pdftotext", "rasterize", "ocr">>, {})
            ELSE IF Len(Strip(r.primary.content)) = 0 THEN
                Outcome(api_jsonify(<<>>, ErrStr("No content detected"), 1),
                        <<"pdftotext">>, {})
            ELSE
                Outcome(api_jsonify(r.primary.content, r.primary.err, r.primary.rc),
                        <<"pdftotext">>, {})
        ELSE IF extension \in NonPdfFormats THEN
            IF r.crash = extension THEN
                Outcome(FlaskRaised("ToolInvocationError"), <<extension>>, {})
            ELSE
                Outcome(api_jsonify(r.primary.content, r.primary.err, r.primary.rc),
                        <<extension>>, {})
        ELSE
            Outcome(api_jsonify(<<>>,
                                ErrStr("Unable to extract content due to unknown extension"),
                                1),
                    <<>>, {})

\* api.py lines 138-149.  make_pdftotext_process returns the three values
\* that line 69 unpacks; line 148 unpacks them into two names, which raises
\* ValueError: too many values to unpack.
api_pdf_to_text(r) ==
    IF r.crash = "pdftotext" THEN
        Outcome(FlaskRaised("ToolInvocationError"), <<"pdftotext">>, {})
    ELSE
        Outcome(FlaskRaised("ValueError"), <<"pdftotext">>, {})

---------------------------------------------------------------------------
(* src/src/server.py : extract_content (the legacy server) *)

\* The text of a fixed message where a document's text is expected.
MessageText(s) == <<s>>

\* The view returns the pair (content, success) as it stands.
server_pair(content, success) ==
    [NoResp EXCEPT !.kind = "tuple", !.fields = {"content", "success"},
                   !.content = content, !.success = success]

\* The view returns what the format extractor returned, as it stands.
server_passthrough(out) ==
    [NoResp EXCEPT !.kind = "tuple", !.fields = {"content", "err", "returncode"},
                   !.content = out.content, !.err = out.err, !.code = CodeInt(out.rc)]

server_extract_content(r) ==
    LET do_ocr == api_do_ocr(r.flag)
        extension == routing_extension(r)
    IN  IF extension = "pdf" THEN
            IF r.crash = "pdftotext" THEN
                Outcome(FlaskRaised("ToolInvocationError"), <<"pdftotext">>, {})
            ELSE IF Truthy(do_ocr) /\ Len(Strip(r.primary.content)) = 0 THEN
                IF r.crash = "rasterize" THEN
                    Outcome(FlaskRaised("ToolInvocationError"),
                            <<"pdftotext", "rasterize">>, {})
                ELSE IF r.crash = "ocr" THEN
                    Outcome(FlaskRaised("ToolInvocationError"),
                            <<"pdftotext", "rasterize", "ocr">>, {})
                ELSE IF r.ocr.content = <<>> THEN
                    Outcome(server_pair(MessageText("Unable to extract document content."),
                                        FALSE),
                            <<"pdftotext", "rasterize", "ocr">>, {})
                ELSE
                    Outcome(server_pair(r.ocr.content, TRUE),
                            <<"pdftotext", "rasterize", "ocr">>, {})
            ELSE IF Len(Strip(r.primary.content)) = 0 THEN
                Outcome(server_pair(<<>>, FALSE), <<"pdftotext">>, {})
            ELSE
                Outcome(server_pair(Strip(r.primary.content), TRUE), <<"pdftotext">>, {})
        ELSE IF extension \in NonPdfFormats THEN
            IF r.crash = extension THEN
                Outcome(FlaskRaised("ToolInvocationError"), <<extension>>, {})
            ELSE
                Outcome(server_passthrough(r.primary), <<extension>>, {})
        ELSE
            \* A bare "return": Flask rejects the None with a TypeError.
            Outcome(FlaskRaised("TypeError"), <<>>, {})

---------------------------------------------------------------------------
(* src/src/api.py : the other endpoints of the Flask API *)

\* src.utils.tasks.get_page_count(path, extension), imported at line 35.
api_get_page_count(r, extension) ==
    IF extension = "pdf" THEN [t |-> "int", v |-> r.pages] ELSE [t |-> "null", v |-> 0]

\* jsonify({"pg_count": pg_count}), 200 ; request.files["file"] is read
\* without validation.
api_page_count(r) ==
    LET extension == split_last(r.filename)
    IN  IF r.crash = "page_count" THEN
            Outcome(FlaskRaised("ToolInvocationError"), <<"page_count">>, {})
        ELSE
            Outcome([NoResp EXCEPT !.status = HTTP_OK, !.kind = "json",
                                   !.fields = {"pg_count"},
                                   !.page_count = api_get_page_count(r, extension)],
                    <<"page_count">>, {})

---------------------------------------------------------------------------
(* src/doctor/views.py : the collaborators it imports *)

\* doctor.forms.DocumentForm: is_valid() and cleaned_data.  A valid form has
\* written the upload to the path cleaned_data["fp"].
DocumentForm(r) ==
    [valid |-> r.valid = "ok",
     extension |-> split_last(r.filename),
     ocr_available |-> r.flag = "True",
     files |-> IF r.valid = "ok" THEN {"upload"} ELSE {}]

\* doctor.lib.utils.cleanup_form: removes the file at cleaned_data["fp"],
\* the copy of the upload of a DocumentForm, the mp3 of an AudioForm.
cleanup_form(fs) == fs \ {"upload", "mp3"}

\* doctor.tasks.extract_from_pdf(path, ocr_available): text-layer extraction,
\* then OCR of the rasterized pdf when OCR is available and the text is blank.
tasks_extract_from_pdf(r, ocr_available) ==
    LET fail(cs) == [raised |-> TRUE, calls |-> cs, content |-> <<>>, err |-> ErrNone,
                     rc |-> 1, byocr |-> FALSE]
        done(cs, c, e, rc, o) == [raised |-> FALSE, calls |-> cs, content |-> c,
                                  err |-> e, rc |-> rc, byocr |-> o]
    IN  IF r.crash = "pdftotext" THEN fail(<<"pdftotext">>)
        ELSE IF ocr_available /\ Len(Strip(r.primary.content)) = 0 THEN
            IF r.crash = "rasterize" THEN fail(<<"pdftotext", "rasterize">>)
            ELSE IF r.crash = "ocr" THEN fail(<<"pdftotext", "rasterize", "ocr">>)
            ELSE IF Len(Strip(r.ocr.content)) = 0 THEN
                done(<<"pdftotext", "rasterize", "ocr">>, <<>>,
                     ErrStr("Unable to extract document content"), 1, TRUE)
            ELSE done(<<"pdftotext", "rasterize", "ocr">>, r.ocr.content, r.ocr.err,
                      r.ocr.rc, TRUE)
        ELSE IF Len(Strip(r.primary.content)) = 0 THEN
            done(<<"pdftotext">>, <<>>, r.primary.err, 1, FALSE)
        ELSE done(<<"pdftotext">>, r.primary.content, r.primary.err, r.primary.rc, FALSE)

\* doctor.tasks.get_page_count(path, extension): the number of pages of a
\* pdf, None for every other extension.
get_page_count(r, extension) ==
    IF extension = "pdf" THEN [t |-> "int", v |-> r.pages] ELSE [t |-> "null", v |-> 0]

\* An exception that leaves a Django view: BadRequest is answered 400 with
\* the framework's error page, everything else 500.
DjangoRaised(exc) ==
    [NoResp EXCEPT !.status = IF exc = "BadRequest" THEN BAD_REQUEST
                              ELSE INTERNAL_SERVER_ERROR,
                   !.kind = "html", !.raised = exc]

\* HttpResponse(text, status=...)
HttpResponse(text, status) ==
    [NoResp EXCEPT !.status = status, !.kind = "text", !.msg = text]

---------------------------------------------------------------------------
(* src/doctor/views.py : extract_doc_content, extract_pdf *)

\* Lines 99-114: the extractor chosen by the extension.  returncode is not
\* bound on the unknown-extension branch.
doc_dispatch(r, extension, ocr_available) ==
    IF extension = "pdf" THEN tasks_extract_from_pdf(r, ocr_available)
    ELSE IF extension \in NonPdfFormats THEN
        [raised |-> r.crash = extension, calls |-> <<extension>>,
         content |-> r.primary.content, err |-> r.primary.err, rc |-> r.primary.rc,
         byocr |-> FALSE]
    ELSE
        [raised |-> FALSE, calls |-> <<>>, content |-> <<>>,
         err |-> ErrStr("Unable to extract content due to unknown extension"),
         rc |-> 1, byocr |-> FALSE]

extract_doc_content(r) ==
    LET form == DocumentForm(r)
        x == doc_dispatch(r, form.extension, form.ocr_available)
    IN  IF ~form.valid THEN
            Outcome(HttpResponse("Failed validation", NOT_ACCEPTABLE), <<>>, form.files)
        ELSE IF x.raised THEN
            Outcome(DjangoRaised("ToolInvocationError"), x.calls, form.files)
        ELSE IF r.crash = "page_count" THEN
            Outcome(DjangoRaised("ToolInvocationError"),
                    Append(x.calls, "page_count"), form.files)
        ELSE
            Outcome([NoResp EXCEPT
                        !.status = HTTP_OK, !.kind = "json",
                        !.fields = {"content", "err", "extension", "extracted_by_ocr",
                                    "page_count"},
                        !.content = x.content, !.err = x.err,
                        !.extension = form.extension, !.byocr = x.byocr,
                        !.page_count = get_page_count(r, form.extension)],
                    Append(x.calls, "page_count"),
                    form.files \ {"upload"})

extract_pdf(r) ==
    LET form == DocumentForm(r)
        x == tasks_extract_from_pdf(r, form.ocr_available)
    IN  IF ~form.valid THEN
            IF r.valid = "all" THEN
                Outcome(HttpResponse("File is missing.", NOT_ACCEPTABLE), <<>>, form.files)
            ELSE
                \* No "__all__" entry among the errors: the KeyError is caught.
                Outcome(HttpResponse("'__all__'", NOT_ACCEPTABLE), <<>>, form.files)
        ELSE IF x.raised THEN
            Outcome(HttpResponse("tool failed to run", NOT_ACCEPTABLE), x.calls, form.files)
        ELSE
            Outcome([HttpResponse("", HTTP_OK) EXCEPT !.content = x.content],
                    x.calls, cleanup_form(form.files))

---------------------------------------------------------------------------
(* src/doctor/views.py : the handlers that run a fixed list of tools *)

Range(seq) == {seq[i] : i \in 1..Len(seq)}

IndexOf(seq, x) ==
    CHOOSE i \in 1..Len(seq) : seq[i] = x /\ \A j \in 1..(i - 1) : seq[j] # x

\* The calls made when the tools are invoked in order and the one named
\* crash raises: the calls up to and including it.
Attempted(tools, crash) ==
    IF crash \in Range(tools) THEN SubSeq(tools, 1, IndexOf(tools, crash)) ELSE tools

\* A form other than DocumentForm (ThumbnailForm, MimeForm, ImagePdfForm):
\* it keeps the upload in memory.  AudioForm writes cleaned_data["fp"].
PlainForm(r) == [valid |-> r.valid = "ok", files |-> {}]

FailedValidation(fs) ==
    Outcome(HttpResponse("Failed validation", NOT_ACCEPTABLE), <<>>, fs)

image_to_pdf(r) ==
    LET form == DocumentForm(r)
        tools == <<"image_open", "convert_tiff_to_pdf_bytes", "strip_metadata_from_bytes">>
    IN  IF ~form.valid THEN FailedValidation(form.files)
        ELSE IF r.crash \in Range(tools) THEN
            Outcome(DjangoRaised("ToolInvocationError"), Attempted(tools, r.crash),
                    form.files)
        ELSE
            Outcome([NoResp EXCEPT !.status = HTTP_OK, !.kind = "pdf",
                                   !.pdf = [pages |-> <<"upload">>, stripped |-> TRUE]],
                    tools, cleanup_form(form.files))

\* make_png_thumbnail_for_instance returns (thumbnail, err, returncode); the
\* view keeps the first and drops the other two.
make_png_thumbnail(r) ==
    LET form == PlainForm(r)
        tools == <<"make_png_thumbnail_for_instance">>
    IN  IF ~form.valid THEN FailedValidation(form.files)
        ELSE IF r.crash \in Range(tools) THEN
            Outcome(DjangoRaised("ToolInvocationError"), tools, form.files)
        ELSE
            Outcome([NoResp EXCEPT !.status = HTTP_OK, !.kind = "image",
                                   !.content = r.primary.content],
                    tools, form.files)

\* HttpResponse(pg_count): the body is str(pg_count), the digits of an int
\* and the four characters None for None.
PyStrCount(pg_count) ==
    [t |-> IF pg_count.t = "int" THEN "str(int)" ELSE "str(None)", v |-> pg_count.v]

page_count(r) ==
    LET form == DocumentForm(r)
        tools == <<"page_count">>
    IN  IF ~form.valid THEN FailedValidation(form.files)
        ELSE IF r.crash \in Range(tools) THEN
            Outcome(DjangoRaised("ToolInvocationError"), tools, form.files)
        ELSE
            Outcome([NoResp EXCEPT
                        !.status = HTTP_OK, !.kind = "text",
                        !.page_count = PyStrCount(get_page_count(r, form.extension))],
                    tools, cleanup_form(form.files))

extract_mime_type(r) ==
    LET form == DocumentForm(r)
        tools == <<"magic_from_file">>
    IN  IF ~form.valid THEN FailedValidation(form.files)
        ELSE IF r.crash \in Range(tools) THEN
            Outcome(DjangoRaised("ToolInvocationError"), tools, form.files)
        ELSE
            Outcome([NoResp EXCEPT !.status = HTTP_OK, !.kind = "json",
                                   !.fields = {"mimetype"}, !.msg = r.sniffed],
                    tools, cleanup_form(form.files))

\* JsonResponse("content", content, "err", err): the data is the str
\* "content" and safe is the truthy "err", so the constructor raises
\* TypeError; the upload has been removed by then.
pdf_to_text(r) ==
    LET form == DocumentForm(r)
        tools == <<"pdftotext">>
    IN  IF ~form.valid THEN FailedValidation(form.files)
        ELSE IF r.crash \in Range(tools) THEN
            Outcome(DjangoRaised("ToolInvocationError"), tools, form.files)
        ELSE
            Outcome(DjangoRaised("TypeError"), tools, cleanup_form(form.files))

---------------------------------------------------------------------------
(* src/doctor/views.py : extract_extension, extract_mime_from_buffer *)

\* Python None where a str is expected.
PyNone == "<None>"

\* A label of the sniffer, cut into the pieces the override rules look at.
Labels ==
    {<<"Composite Document File V2 Document", ", Little Endian">>,
     <<"(Corel/WP)">>,
     <<"C source, ASCII text">>,
     <<"WordPerfect document", " v5.1">>,
     <<"Audio file with ID3", " version 2.3.0, contains:", "MPEG", " ADTS, ", "layer III">>,
     <<"RIFF data, ", "Audio Media">>,
     <<"Composite Document File V2 Document", ", Title: ", "Audio Media">>,
     <<"WordPerfect document", ", ", "Audio Media">>,
     <<"PDF document">>,
     <<"data">>}

\* str.startswith
StartsWith(label, prefix) == Len(label) > 0 /\ label[1] = prefix

\* re.findall(r"(Audio file with ID3.*MPEG.*layer III)|(.*Audio Media.*)", s)
\* finds a match.
AudioPattern(label) ==
    \/ \E i, j, k \in 1..Len(label) :
          /\ i < j /\ j < k
          /\ label[i] = "Audio file with ID3" /\ label[j] = "MPEG" /\ label[k] = "layer III"
    \/ "Audio Media" \in Range(label)

\* n bytes that no rule and no check of the handler looks at.
Pad(n) == [i \in 1..n |-> "x"]

\* b"%%EOF\r", byte by byte; CR is the carriage return.
EofMarker == <<"%", "%", "E", "O", "F", "CR">>

\* Uploaded contents: plain bytes, bytes ending with the marker, a pdf header
\* before the marker, bytes ending with a part of the marker, and "PDF"
\* ending at byte 40 and at byte 41.
Contents ==
    {<<"x">>,
     <<"x">> \o EofMarker,
     <<"%", "P", "D", "F", "x">> \o EofMarker,
     <<"x", "E", "O", "F">>,
     Pad(37) \o <<"P", "D", "F">>,
     Pad(38) \o <<"P", "D", "F">>}

RECURSIVE bytes_lstrip(_, _)
bytes_lstrip(b, chars) ==
    IF b # <<>> /\ Head(b) \in chars THEN bytes_lstrip(Tail(b), chars) ELSE b

RECURSIVE bytes_rstrip(_, _)
bytes_rstrip(b, chars) ==
    IF b # <<>> /\ b[Len(b)] \in chars
    THEN bytes_rstrip(SubSeq(b, 1, Len(b) - 1), chars) ELSE b

\* bytes.strip(chars): every leading and every trailing byte that is one of
\* chars is removed, in whatever order the bytes stand.
bytes_strip(b, chars) == bytes_rstrip(bytes_lstrip(b, chars), chars)

\* content.strip(b"%%EOF\r") of line 225: the bytes the sniffer is asked
\* about again.
resniffed_content(r) == bytes_strip(r.content, Range(EofMarker))

\* magic.from_buffer(content.strip(b"%%EOF\r"), mime=True): the sniffer
\* answers as before for bytes it has already seen.
resniffed_mime(r) ==
    IF resniffed_content(r) = r.content THEN r.mime ELSE r.mime2

\* MIME strings the sniffer reports when asked for a MIME.
Mimes == {"application/pdf", "application/octet-stream", "text/html", "application/x-unknown"}

\* mimetypes.guess_extension: the answer for one MIME depends on the Python
\* version and the system's mime.types; env names the installation.
guess_extension(env, mime) ==
    CASE mime = "application/msword" -> IF env = "old" THEN ".dot" ELSE ".doc"
      [] mime = "application/vnd.wordperfect" -> ".wpd"
      [] mime = "text/plain" -> IF env = "old" THEN ".ksh" ELSE ".txt"
      [] mime = "audio/mpeg" -> ".mp3"
      [] mime = "application/pdf" -> ".pdf"
      [] mime = "application/octet-stream" -> IF env = "old" THEN ".obj" ELSE ".bin"
      [] mime = "text/html" -> IF env = "old" THEN ".htm" ELSE ".html"
      [] OTHER -> PyNone

\* str.lower() on the extensions of the tables: the upper-case spellings
\* fold to the lower-case ones, every other string is unchanged.
Lower(extension) ==
    CASE extension = ".HTM" -> ".htm"
      [] extension = ".DOT" -> ".dot"
      [] extension = ".PDF" -> ".pdf"
      [] OTHER -> extension

\* The resolution without the table of fixes.
fixes_skipped(extension) == extension

\* fixes.get(extension, extension)
fixes_get(extension) ==
    CASE extension = ".htm" -> ".html"
      [] extension = ".xml" -> ".html"
      [] extension = ".wsdl" -> ".html"
      [] extension = ".ksh" -> ".txt"
      [] extension = ".asf" -> ".wma"
      [] extension = ".dot" -> ".doc"
      [] OTHER -> extension

\* The resolution without the override rules: the sniffer is asked for the
\* MIME of every content.
override_mime_sniffed(r) == [mime |-> r.mime, asked |-> TRUE]

\* The override rules with the audio pattern tried before the others.
override_mime_audio_first(r) ==
    IF AudioPattern(r.label) THEN
        [mime |-> "audio/mpeg", asked |-> FALSE]
    ELSE IF StartsWith(r.label, "Composite Document File V2 Document") THEN
        [mime |-> "application/msword", asked |-> FALSE]
    ELSE IF r.label = <<"(Corel/WP)">> THEN
        [mime |-> "application/vnd.wordperfect", asked |-> FALSE]
    ELSE IF r.label = <<"C source, ASCII text">> THEN
        [mime |-> "text/plain", asked |-> FALSE]
    ELSE IF StartsWith(r.label, "WordPerfect document") THEN
        [mime |-> "application/vnd.wordperfect", asked |-> FALSE]
    ELSE [mime |-> r.mime, asked |-> TRUE]

\* Lines 196-213: the MIME chosen by the first matching override rule, and
\* whether the sniffer had to be asked for it.
override_mime(r) ==
    IF StartsWith(r.label, "Composite Document File V2 Document") THEN
        [mime |-> "application/msword", asked |-> FALSE]
    ELSE IF r.label = <<"(Corel/WP)">> THEN
        [mime |-> "application/vnd.wordperfect", asked |-> FALSE]
    ELSE IF r.label = <<"C source, ASCII text">> THEN
        [mime |-> "text/plain", asked |-> FALSE]
    ELSE IF StartsWith(r.label, "WordPerfect document") THEN
        [mime |-> "application/vnd.wordperfect", asked |-> FALSE]
    ELSE IF AudioPattern(r.label) THEN
        [mime |-> "audio/mpeg", asked |-> FALSE]
    ELSE [mime |-> r.mime, asked |-> TRUE]

extract_extension(r) ==
    LET form == PlainForm(r)
        m == override_mime(r)
        sniffs == IF m.asked THEN <<"magic_from_buffer", "magic_from_buffer">>
                  ELSE <<"magic_from_buffer">>
        extension == guess_extension(r.env, m.mime)
        resniffed == guess_extension(r.env, resniffed_mime(r))
        final == IF extension = ".bin" THEN resniffed ELSE extension
    IN  IF ~form.valid THEN FailedValidation(form.files)
        ELSE IF r.crash = "magic_from_buffer" THEN
            Outcome(DjangoRaised("ToolInvocationError"), <<"magic_from_buffer">>, form.files)
        ELSE IF extension = ".obj" THEN
            \* "PDF" in content[0:40] with content a bytes object: TypeError.
            Outcome(DjangoRaised("TypeError"), sniffs, form.files)
        ELSE IF final = PyNone THEN
            \* None has no lower(): AttributeError.
            Outcome(DjangoRaised("AttributeError"),
                    IF extension = ".bin" THEN Append(sniffs, "magic_from_buffer") ELSE sniffs,
                    form.files)
        ELSE
            Outcome(HttpResponse(Lower(fixes_get(final)), HTTP_OK),
                    IF extension = ".bin" THEN Append(sniffs, "magic_from_buffer") ELSE sniffs,
                    form.files)

extract_mime_from_buffer(r) ==
    LET form == PlainForm(r)
    IN  IF ~form.valid THEN FailedValidation(form.files)
        ELSE IF r.crash = "magic_from_buffer" THEN
            Outcome(DjangoRaised("ToolInvocationError"), <<"magic_from_buffer">>, form.files)
        ELSE
            Outcome([NoResp EXCEPT !.status = HTTP_OK, !.kind = "json",
                                   !.fields = {"mime", "extension"}, !.msg = r.mime,
                                   !.extension = guess_extension(r.env, r.mime)],
                    <<"magic_from_buffer">>, form.files)

---------------------------------------------------------------------------
(* src/doctor/views.py : images_to_pdf, the audio handlers, embed_text *)

images_to_pdf(r) ==
    LET form == PlainForm(r)
        many == <<"download_images", "img2pdf_convert", "strip_metadata_from_path">>
        one == <<"requests_get", "image_open", "convert_tiff_to_pdf_bytes",
                 "strip_metadata_from_bytes">>
        tools == IF Len(r.urls) > 1 THEN many ELSE one
    IN  IF ~form.valid THEN
            Outcome(DjangoRaised("BadRequest"), <<>>, form.files)
        ELSE IF Len(r.urls) = 0 THEN
            \* sorted_urls[0] of an empty list: IndexError.
            Outcome(DjangoRaised("IndexError"), <<>>, form.files)
        ELSE IF r.crash \in Range(tools) THEN
            Outcome(DjangoRaised("ToolInvocationError"), Attempted(tools, r.crash),
                    form.files)
        ELSE
            Outcome([NoResp EXCEPT
                        !.status = HTTP_OK, !.kind = "pdf",
                        !.pdf = [pages |-> IF Len(r.urls) > 1 THEN r.urls ELSE <<r.urls[1]>>,
                                 stripped |-> TRUE]],
                    tools, form.files)

\* doctor.forms.AudioForm: a valid form keeps the upload in memory as
\* cleaned_data["file"] and names in cleaned_data["fp"] the path the mp3 is
\* to be written to; the handlers copy or convert the upload themselves.
AudioForm(r) == [valid |-> r.valid = "ok", files |-> {}]

\* str(e) of the exception the body raised: the one of eyed3.load, or the
\* AttributeError of mp3_file.info when eyed3.load answered None for a
\* file it cannot read.
audio_exception(r) ==
    IF r.crash = "eyed3_load" THEN "tool failed to run"
    ELSE IF r.audio = "unreadable" THEN "'NoneType' object has no attribute 'info'"
    ELSE "none"

\* The handler with a temporary file that is not deleted on close and is
\* removed after the duration was read: an exception leaves it behind.
fetch_audio_duration_undeleted(r) ==
    LET form == AudioForm(r)
        tmp == {"tmp"}
    IN  IF ~form.valid THEN FailedValidation(form.files)
        ELSE IF audio_exception(r) # "none" THEN
            Outcome(HttpResponse(audio_exception(r), HTTP_OK), <<"eyed3_load">>,
                    form.files \cup tmp)
        ELSE
            Outcome(HttpResponse("time_secs", HTTP_OK), <<"eyed3_load">>,
                    (form.files \cup tmp) \ tmp)

\* The whole body sits in try/except Exception.  The upload is copied to a
\* NamedTemporaryFile inside a with block, which removes the file when the
\* block is left, by return or by exception.
fetch_audio_duration(r) ==
    LET form == AudioForm(r)
        tmp == {"tmp"}
    IN  IF ~form.valid THEN FailedValidation(form.files)
        ELSE IF audio_exception(r) # "none" THEN
            Outcome(HttpResponse(audio_exception(r), HTTP_OK), <<"eyed3_load">>,
                    (form.files \cup tmp) \ tmp)
        ELSE
            Outcome(HttpResponse("time_secs", HTTP_OK), <<"eyed3_load">>,
                    (form.files \cup tmp) \ tmp)

\* The conversion with the two steps exchanged: the tags are written to
\* the file before it is transcoded.
convert_audio_tagged_first(r) ==
    LET form == AudioForm(r)
        tools == <<"set_mp3_meta_data", "convert_to_mp3">>
        written(cs) == IF "convert_to_mp3" \in Range(cs) /\ r.crash # "convert_to_mp3"
                       THEN {"mp3"} ELSE {}
    IN  IF ~form.valid THEN FailedValidation(form.files)
        ELSE IF r.crash \in Range(tools) THEN
            Outcome(DjangoRaised("ToolInvocationError"), Attempted(tools, r.crash),
                    form.files \cup written(Attempted(tools, r.crash)))
        ELSE
            Outcome([NoResp EXCEPT !.status = HTTP_OK, !.kind = "audio", !.msg = "tagged mp3"],
                    tools, cleanup_form(form.files \cup written(tools)))

convert_audio(r) ==
    LET form == AudioForm(r)
        tools == <<"convert_to_mp3", "set_mp3_meta_data">>
        written(cs) == IF "convert_to_mp3" \in Range(cs) /\ r.crash # "convert_to_mp3"
                       THEN {"mp3"} ELSE {}
    IN  IF ~form.valid THEN FailedValidation(form.files)
        ELSE IF r.crash \in Range(tools) THEN
            Outcome(DjangoRaised("ToolInvocationError"), Attempted(tools, r.crash),
                    form.files \cup written(Attempted(tools, r.crash)))
        ELSE
            Outcome([NoResp EXCEPT !.status = HTTP_OK, !.kind = "audio", !.msg = "tagged mp3"],
                    tools, cleanup_form(form.files \cup written(tools)))

\* The loop with the text layer built for the loop index itself, which
\* counts from 0, instead of the 1-indexed page.
merged_pages_zero_indexed(n) ==
    [k \in 1..n |-> LET page == k - 1 IN <<page + 1, page>>]

\* for page in range(0, getNumPages()): the page of the loop index, which
\* getPage counts from 0, merged with make_page_with_text(page + 1, ...),
\* which counts the pages of the OCR data from 1, and added to the output.
\* An output page is the pair of the original page and of the page of the
\* OCR data its text layer was built from, both named 1-indexed.
merged_pages(n) ==
    [k \in 1..n |-> LET page == k - 1 IN <<page + 1, page + 1>>]

embed_text(r) ==
    LET form == DocumentForm(r)
        tools == <<"rasterize", "image_to_data", "image_open">>
    IN  IF ~form.valid THEN FailedValidation(form.files)
        ELSE IF r.crash \in Range(tools) THEN
            Outcome(DjangoRaised("ToolInvocationError"), Attempted(tools, r.crash),
                    form.files)
        ELSE
            Outcome([NoResp EXCEPT
                        !.status = HTTP_OK, !.kind = "pdf",
                        !.pdf = [pages |-> merged_pages(r.pages),
                                 stripped |-> FALSE]],
                    tools, cleanup_form(form.files))

---------------------------------------------------------------------------
(* src/src/api.py : thumbnail, the image converters, audio_conversion *)

REQUEST_TIMEOUT == 408

UNPROCESSABLE_ENTITY == 422

\* A view that returns a bare int, as in "return 422": Flask's
\* make_response accepts a str, bytes, dict, tuple or response object and
\* raises TypeError for anything else, which is answered with a 500.
FlaskBareInt(code) == FlaskRaised("TypeError")

FlaskPdf(pages) ==
    [NoResp EXCEPT !.status = HTTP_OK, !.kind = "pdf",
                   !.pdf = [pages |-> pages, stripped |-> TRUE]]

\* return thumbnail: the bytes of the image with the default status; the
\* stderr and the return code of the rasterizer are dropped.
api_make_png_thumbnail(r) ==
    LET tools == <<"make_png_thumbnail_for_instance">>
    IN  IF r.crash \in Range(tools) THEN
            Outcome(FlaskRaised("ToolInvocationError"), tools, {})
        ELSE
            Outcome([NoResp EXCEPT !.status = HTTP_OK, !.kind = "image",
                                   !.content = r.primary.content],
                    tools, {})

\* Only a TimeoutError of the download is caught; the conversion and the
\* stripping run outside the try.
split_single_tiff_into_pdf_from_url(r) ==
    LET opening == <<"requests_get", "image_open">>
        tools == opening \o <<"convert_tiff_to_pdf_bytes", "strip_metadata_from_bytes">>
    IN  IF r.crash \in Range(opening) /\ r.exc = "TimeoutError" THEN
            Outcome([NoResp EXCEPT !.status = REQUEST_TIMEOUT, !.kind = "json",
                                   !.fields = {"aws_error"}, !.msg = "aws timeout"],
                    Attempted(tools, r.crash), {})
        ELSE IF r.crash \in Range(tools) THEN
            Outcome(FlaskRaised(r.exc), Attempted(tools, r.crash), {})
        ELSE
            Outcome(FlaskPdf(<<r.urls[1]>>), tools, {})

\* r.urls is the list find_and_sort_image_urls found under aws_path.
make_pdf_from_images(r) ==
    LET tools == <<"find_and_sort_image_urls", "download_images",
                   "pdf_bytes_from_image_array", "strip_metadata_from_bytes">>
    IN  IF r.crash \in Range(tools) THEN
            Outcome(FlaskBareInt(UNPROCESSABLE_ENTITY), Attempted(tools, r.crash), {})
        ELSE
            Outcome(FlaskPdf(r.urls), tools, {})

\* r.urls is the "urls" member of the posted JSON.
make_pdf_from_urls(r) ==
    LET tools == <<"download_images", "pdf_bytes_from_image_array",
                   "strip_metadata_from_bytes">>
    IN  IF r.valid # "ok" THEN
            Outcome(FlaskBareInt(UNPROCESSABLE_ENTITY), <<>>, {})
        ELSE IF r.crash \in Range(tools) THEN
            Outcome(FlaskBareInt(UNPROCESSABLE_ENTITY), Attempted(tools, r.crash), {})
        ELSE
            Outcome(FlaskPdf(r.urls), tools, {})

\* The whole body sits in try/except Exception; the temporary mp3 is
\* removed on both paths.
audio_conversion(r) ==
    LET tools == <<"convert_to_mp3", "set_mp3_meta_data", "convert_to_base64">>
        failed(cs) ==
            Outcome([NoResp EXCEPT !.status = UNPROCESSABLE_ENTITY, !.kind = "json",
                                   !.fields = {"msg"}, !.msg = "str(e)"],
                    cs, {})
    IN  IF r.valid # "ok" THEN failed(<<>>)
        ELSE IF r.crash \in Range(tools) THEN failed(Attempted(tools, r.crash))
        ELSE
            Outcome([NoResp EXCEPT !.status = HTTP_OK, !.kind = "json",
                                   !.fields = {"audio_b64", "duration", "msg"},
                                   !.msg = "Success"],
                    tools, {})

---------------------------------------------------------------------------
(* src/doctor/urls.py *)

\* The routes, each a path and the view it names.
urlpatterns ==
    {<<"", "heartbeat">>,
     <<"extract/pdf/text/", "extract_pdf">>,
     <<"extract/doc/text/", "extract_doc_content">>,
     <<"convert/image/pdf/", "image_to_pdf">>,
     <<"convert/images/pdf/", "images_to_pdf">>,
     <<"convert/pdf/thumbnail/", "make_png_thumbnail">>,
     <<"convert/audio/mp3/", "convert_audio">>,
     <<"utils/page-count/pdf/", "page_count">>,
     <<"utils/mime-type/", "extract_mime_type">>,
     <<"utils/file/extension/", "extract_extension">>,
     <<"utils/file/mime/", "extract_mime_from_buffer">>,
     <<"utils/audio/duration/", "fetch_audio_duration">>,
     <<"utils/add/text/pdf/", "embed_text">>,
     <<"text/", "extract_pdf">>,
     <<"extract-doc-content/", "extract_doc_content">>,
     <<"pg-count/", "page_count">>,
     <<"mime-type/", "extract_mime_type">>,
     <<"image-to-pdf/", "image_to_pdf">>,
     <<"thumbnail/", "make_png_thumbnail">>,
     <<"images-to-pdf/", "images_to_pdf">>,
     <<"convert-audio/", "convert_audio">>,
     <<"document/page_count", "page_count">>,
     <<"document/thumbnail", "make_png_thumbnail">>,
     <<"document/pdf-to-text/", "pdf_to_text">>}

\* The answer of the URL resolver to a path that matches no route.
page_not_found ==
    [NoResp EXCEPT !.status = 404, !.kind = "html", !.raised = "Resolver404"]

\* The view a path is routed to, "page_not_found" when there is none.
resolve(path) ==
    IF \E u \in urlpatterns : u[1] = path
    THEN (CHOOSE u \in urlpatterns : u[1] = path)[2]
    ELSE "page_not_found"

\* A thumbnail request sent to a path: served by the view the path is
\* routed to.
dispatch(r) ==
    IF resolve(r.path) = "make_png_thumbnail" THEN make_png_thumbnail(r)
    ELSE Outcome(page_not_found, <<>>, {})

---------------------------------------------------------------------------
(* Request inputs *)

ExtractionReq(fn, fl, va, sn, p, o, c, pg) ==
    [filename |-> fn, flag |-> fl, valid |-> va, sniffed |-> sn,
     primary |-> p, ocr |-> o, crash |-> c, pages |-> pg]

\* The format the content really has, as a sniffer would report it.
Sniffs == {"pdf", "txt"}

\* Requests for a pdf: both tools answer, or one tool fails to run.
PdfRequests(names, valids, pgs) ==
    {ExtractionReq(fn, fl, va, sn, p, o, "none", pg) :
        fn \in names, fl \in Flags, va \in valids, sn \in Sniffs,
        p \in ToolOuts, o \in ToolOuts, pg \in pgs}
    \cup
    {ExtractionReq(fn, fl, "ok", sn, p, DefaultOut, c, pg) :
        fn \in names, fl \in Flags, sn \in Sniffs,
        p \in {q \in ToolOuts : q.err = ErrNone /\ q.rc = 0},
        c \in {"pdftotext", "rasterize", "ocr"}, pg \in pgs}

\* Requests for another extension: at most one extractor runs.
OtherRequests(names, valids, pgs) ==
    {ExtractionReq(fn, fl, va, sn, p, DefaultOut, c, pg) :
        fn \in names, fl \in Flags, va \in valids, sn \in Sniffs,
        p \in ToolOuts, c \in {"none"}, pg \in pgs}
    \cup
    {ExtractionReq(fn, fl, "ok", sn, DefaultOut, DefaultOut, split_last(fn), pg) :
        fn \in {n \in names : split_last(n) \in NonPdfFormats},
        fl \in Flags, sn \in Sniffs, pg \in pgs}

\* Requests of the extension-routed extraction endpoints of the Flask apps,
\* which validate nothing and count no pages.
FlaskExtractionRequests ==
    PdfRequests({n \in Filenames : split_last(n) = "pdf"}, {"ok"}, {0})
    \cup OtherRequests({n \in Filenames : split_last(n) # "pdf"}, {"ok"}, {0})

\* Largest page count of an uploaded pdf.
MaxPages == 2

\* Uploads that fail form validation: with a form-wide error, or with
\* errors on single fields only.
InvalidRequests ==
    {ExtractionReq(fn, fl, va, "pdf", DefaultOut, DefaultOut, "none", 0) :
        fn \in {<<"f", "pdf">>, <<"f", "doc">>}, fl \in {Absent, "True"},
        va \in {"all", "field"}}

\* A page count that fails to run, the extractors having answered.
PageCountCrashes ==
    {ExtractionReq(fn, fl, "ok", "pdf", DefaultOut, DefaultOut, "page_count", 0) :
        fn \in Filenames, fl \in Flags}

\* Requests of the Django extraction endpoint routed by extension.
DocRequests ==
    PdfRequests({n \in Filenames : split_last(n) = "pdf"}, {"ok"}, 0..MaxPages)
    \cup OtherRequests({n \in Filenames : split_last(n) # "pdf"}, {"ok"}, {0})
    \cup PageCountCrashes
    \cup InvalidRequests

\* Requests of the Django pdf-only endpoint, which reads no extension.
PdfOnlyRequests ==
    PdfRequests({<<"f", "pdf">>}, {"ok"}, {0}) \cup InvalidRequests

\* Requests of the Django endpoints that take one upload and run a fixed
\* list of tools, one of which may fail to run.
UploadRequests(names, outs, crashes) ==
    {ExtractionReq(fn, Absent, "ok", sn, p, DefaultOut, c, pg) :
        fn \in names, sn \in Sniffs, p \in outs, c \in crashes \cup {"none"},
        pg \in 0..MaxPages}
    \cup InvalidRequests

\* Requests of the resolver endpoints: the sniffer's label for the content,
\* its MIME for the content and for the stripped content, the installation.
SniffRequests ==
    {[valid |-> va, label |-> l, mime |-> m, mime2 |-> m2, env |-> e, crash |-> c,
      content |-> b] :
        va \in {"ok"}, l \in Labels, m \in Mimes, m2 \in Mimes, e \in {"old", "new"},
        c \in {"none"}, b \in Contents}
    \cup
    {[valid |-> va, label |-> <<"data">>, mime |-> "application/pdf",
      mime2 |-> "application/pdf", env |-> "new", crash |-> c, content |-> <<"x">>] :
        va \in {"ok", "all", "field"}, c \in {"none", "magic_from_buffer"}}

\* Most image URLs in one request.
MaxUrls == 2

Urls == {"u1", "u2"}

UrlLists == UNION {[1..n -> Urls] : n \in 0..MaxUrls}

UrlRequests ==
    {[valid |-> "ok", urls |-> us, crash |-> c] :
        us \in UrlLists,
        c \in {"none", "download_images", "img2pdf_convert", "strip_metadata_from_path",
                "requests_get", "image_open", "convert_tiff_to_pdf_bytes",
                "strip_metadata_from_bytes"}}
    \cup {[valid |-> va, urls |-> <<>>, crash |-> "none"] : va \in {"all", "field"}}

AudioRequests(crashes) ==
    {[valid |-> va, audio |-> a, crash |-> c] :
        va \in {"ok", "all", "field"}, a \in {"mp3", "unreadable"},
        c \in crashes \cup {"none"}}

\* Requests of the Flask image converters: the list of image URLs, the
\* tool that fails to run and the exception it raises.
FlaskUrlRequests(sizes, valids, crashes) ==
    {[valid |-> "ok", urls |-> us, crash |-> c, exc |-> e] :
        us \in UNION {[1..n -> Urls] : n \in sizes},
        c \in crashes \cup {"none"}, e \in {"TimeoutError", "ConnectionError"}}
    \cup {[valid |-> va, urls |-> <<>>, crash |-> "none", exc |-> "ConnectionError"] :
            va \in valids}

\* Requests of audio_conversion: without the upload field, with audio_data
\* that is no JSON, or complete.
FlaskAudioRequests ==
    {[valid |-> va, audio |-> a, crash |-> c] :
        va \in {"ok", "no audio_file", "bad audio_data"}, a \in {"mp3", "unreadable"},
        c \in {"none", "convert_to_mp3", "set_mp3_meta_data", "convert_to_base64"}}

\* Most page indices in one batch thumbnail request.
MaxThumbs == 2

\* Thumbnail requests as the tests send them: to the path of the single
\* thumbnail, and to the path of the batch with a list of page indices.
ThumbnailPaths == {"convert/pdf/thumbnail/", "convert/pdf/thumbnails/"}

ThumbnailRangeRequests ==
    {[path |-> pa, filename |-> <<"f", "pdf">>, valid |-> va, crash |-> "none",
      primary |-> DefaultOut, pages |-> pg, indices |-> ix] :
        pa \in ThumbnailPaths, va \in {"ok", "all"}, pg \in 0..MaxPages,
        ix \in UNION {[1..n -> 1..(MaxPages + 1)] : n \in 0..MaxThumbs}}

---------------------------------------------------------------------------
(* Workers and temporary files *)

\* Two requests are handled at the same time, each by its own worker.
Workers == {1, 2}

\* The temporary files a handler names: the copy of the upload, the
\* rasterized tiff, the mp3.
Slots == {"upload", "tiff", "mp3"}

NoPath == <<"none", 0>>

IdleProc ==
    [h |-> "idle", ocr |-> FALSE, crash |-> "none", pc |-> 0, mode |-> "idle",
     slot |-> [sl \in Slots |-> NoPath], got |-> 0, status |-> 0,
     trespass |-> FALSE]

---------------------------------------------------------------------------
(* The state machine *)

Init ==
    /\ handler = "idle"
    /\ req = DefaultReq
    /\ calls = <<>>
    /\ resp = NoResp
    /\ files = {}
    /\ proc = [w \in Workers |-> IdleProc]
    /\ disk = <<>>
    /\ issued = 0

Handle(name, r, o) ==
    /\ handler' = name
    /\ req' = r
    /\ calls' = o.calls
    /\ resp' = o.resp
    /\ files' = o.files
    /\ UNCHANGED concvars

ApiExtractContent ==
    /\ handler = "idle"
    /\ \E r \in FlaskExtractionRequests :
        Handle("api_extract_content", r, api_extract_content(r))

ExtractDocContent ==
    /\ handler = "idle"
    /\ \E r \in DocRequests :
        Handle("extract_doc_content", r, extract_doc_content(r))

ExtractPdf ==
    /\ handler = "idle"
    /\ \E r \in PdfOnlyRequests :
        Handle("extract_pdf", r, extract_pdf(r))

ImageToPdf ==
    /\ handler = "idle"
    /\ \E r \in UploadRequests({<<"f", "tiff">>}, {DefaultOut},
                               {"image_open", "convert_tiff_to_pdf_bytes",
                                "strip_metadata_from_bytes"}) :
        Handle("image_to_pdf", r, image_to_pdf(r))

MakePngThumbnail ==
    /\ handler = "idle"
    /\ \E r \in UploadRequests({<<"f", "pdf">>}, ToolOuts,
                               {"make_png_thumbnail_for_instance"}) :
        Handle("make_png_thumbnail", r, make_png_thumbnail(r))

\* The uploads of the Flask API, which validates nothing.
FlaskUploads(names, outs, crashes) ==
    {r \in UploadRequests(names, outs, crashes) : r.valid = "ok"}

ApiPageCount ==
    /\ handler = "idle"
    /\ \E r \in FlaskUploads(Filenames, {DefaultOut}, {"page_count"}) :
        Handle("api_page_count", r, api_page_count(r))

ApiMakePngThumbnail ==
    /\ handler = "idle"
    /\ \E r \in FlaskUploads({<<"f", "pdf">>}, ToolOuts,
                             {"make_png_thumbnail_for_instance"}) :
        Handle("api_make_png_thumbnail", r, api_make_png_thumbnail(r))

SplitSingleTiffIntoPdfFromUrl ==
    /\ handler = "idle"
    /\ \E r \in FlaskUrlRequests({1}, {},
                                 {"requests_get", "image_open",
                                  "convert_tiff_to_pdf_bytes",
                                  "strip_metadata_from_bytes"}) :
        Handle("split_single_tiff_into_pdf_from_url", r,
               split_single_tiff_into_pdf_from_url(r))

MakePdfFromImages ==
    /\ handler = "idle"
    /\ \E r \in FlaskUrlRequests(0..MaxUrls, {},
                                 {"find_and_sort_image_urls", "download_images",
                                  "pdf_bytes_from_image_array",
                                  "strip_metadata_from_bytes"}) :
        Handle("make_pdf_from_images", r, make_pdf_from_images(r))

MakePdfFromUrls ==
    /\ handler = "idle"
    /\ \E r \in FlaskUrlRequests(0..MaxUrls, {"bad json"},
                                 {"download_images", "pdf_bytes_from_image_array",
                                  "strip_metadata_from_bytes"}) :
        Handle("make_pdf_from_urls", r, make_pdf_from_urls(r))

AudioConversion ==
    /\ handler = "idle"
    /\ \E r \in FlaskAudioRequests :
        Handle("audio_conversion", r, audio_conversion(r))

\* Django resolves the path of the request and calls the view.
Dispatch ==
    /\ handler = "idle"
    /\ \E r \in ThumbnailRangeRequests :
        Handle(resolve(r.path), r, dispatch(r))

PageCount ==
    /\ handler = "idle"
    /\ \E r \in UploadRequests(Filenames, {DefaultOut}, {"page_count"}) :
        Handle("page_count", r, page_count(r))

ExtractMimeType ==
    /\ handler = "idle"
    /\ \E r \in UploadRequests({<<"f", "pdf">>, <<"f">>}, {DefaultOut},
                               {"magic_from_file"}) :
        Handle("extract_mime_type", r, extract_mime_type(r))

ApiPdfToText ==
    /\ handler = "idle"
    /\ \E r \in FlaskUploads({<<"f", "pdf">>}, ToolOuts, {"pdftotext"}) :
        Handle("api_pdf_to_text", r, api_pdf_to_text(r))

PdfToText ==
    /\ handler = "idle"
    /\ \E r \in UploadRequests({<<"f", "pdf">>}, ToolOuts, {"pdftotext"}) :
        Handle("pdf_to_text", r, pdf_to_text(r))

ExtractExtension ==
    /\ handler = "idle"
    /\ \E r \in SniffRequests :
        Handle("extract_extension", r, extract_extension(r))

ExtractMimeFromBuffer ==
    /\ handler = "idle"
    /\ \E r \in SniffRequests :
        Handle("extract_mime_from_buffer", r, extract_mime_from_buffer(r))

ImagesToPdf ==
    /\ handler = "idle"
    /\ \E r \in UrlRequests :
        Handle("images_to_pdf", r, images_to_pdf(r))

FetchAudioDuration ==
    /\ handler = "idle"
    /\ \E r \in AudioRequests({"eyed3_load"}) :
        Handle("fetch_audio_duration", r, fetch_audio_duration(r))

ConvertAudio ==
    /\ handler = "idle"
    /\ \E r \in AudioRequests({"convert_to_mp3", "set_mp3_meta_data"}) :
        Handle("convert_audio", r, convert_audio(r))

EmbedText ==
    /\ handler = "idle"
    /\ \E r \in UploadRequests({<<"f", "pdf">>}, {DefaultOut},
                               {"rasterize", "image_to_data", "image_open"}) :
        Handle("embed_text", r, embed_text(r))

ServerExtractContent ==
    /\ handler = "idle"
    /\ \E r \in FlaskExtractionRequests :
        Handle("server_extract_content", r, server_extract_content(r))

\* The response has been sent; the worker takes the next request.
NextRequest ==
    /\ handler # "idle"
    /\ handler' = "idle"
    /\ req' = DefaultReq
    /\ calls' = <<>>
    /\ resp' = NoResp
    /\ files' = {}
    /\ UNCHANGED concvars

Next ==
    \/ ApiExtractContent
    \/ ServerExtractContent
    \/ ExtractDocContent
    \/ ExtractPdf
    \/ ImageToPdf
    \/ MakePngThumbnail
    \/ PageCount
    \/ ApiPageCount
    \/ Dispatch
    \/ ApiMakePngThumbnail
    \/ SplitSingleTiffIntoPdfFromUrl
    \/ MakePdfFromImages
    \/ MakePdfFromUrls
    \/ AudioConversion
    \/ ExtractMimeType
    \/ ApiPdfToText
    \/ PdfToText
    \/ ExtractExtension
    \/ ExtractMimeFromBuffer
    \/ ImagesToPdf
    \/ FetchAudioDuration
    \/ ConvertAudio
    \/ EmbedText
    \/ NextRequest

Spec == Init /\ [][Next]_vars

---------------------------------------------------------------------------
(* src/src/api.py, src/doctor/views.py : the handlers step by step *)

\* One statement of a handler that touches a temporary file: what it does,
\* the file it does it to, the tool that does it, and where the bytes it
\* writes come from (the request in memory, or another file).
Step(op, sl, tool, src) == [op |-> op, slot |-> sl, tool |-> tool, src |-> src]

\* api.py lines 67-104 for a pdf; lines 72-74 run when OCR is wanted and
\* the text layer is blank.
extract_content_steps(ocr) ==
    <<Step("create", "upload", "NamedTemporaryFile", "memory"),
      Step("write", "upload", "save", "memory"),
      Step("read", "upload", "pdftotext", "upload")>>
    \o (IF ocr
        THEN <<Step("create", "tiff", "NamedTemporaryFile", "memory"),
               Step("write", "tiff", "rasterize", "upload"),
               Step("read", "tiff", "ocr", "tiff"),
               Step("close", "tiff", "with", "tiff")>>
        ELSE <<>>)
    \o <<Step("close", "upload", "with", "upload"),
         Step("respond", "upload", "jsonify", "memory")>>

\* api.py lines 262-277.
audio_conversion_steps ==
    <<Step("name", "mp3", "uuid4", "memory"),
      Step("write", "mp3", "convert_to_mp3", "memory"),
      Step("write", "mp3", "set_mp3_meta_data", "mp3"),
      Step("read", "mp3", "convert_to_base64", "mp3"),
      Step("remove", "mp3", "os_remove", "mp3"),
      Step("respond", "mp3", "jsonify", "memory")>>

\* views.py lines 140-146.
make_png_thumbnail_steps ==
    <<Step("create", "upload", "NamedTemporaryFile", "memory"),
      Step("write", "upload", "write", "memory"),
      Step("read", "upload", "make_png_thumbnail_for_instance", "upload"),
      Step("close", "upload", "with", "upload"),
      Step("respond", "upload", "HttpResponse", "memory")>>

Steps(p) ==
    CASE p.h = "api_extract_content" -> extract_content_steps(p.ocr)
      [] p.h = "audio_conversion" -> audio_conversion_steps
      [] p.h = "make_png_thumbnail" -> make_png_thumbnail_steps
      [] OTHER -> <<>>

\* The requests a worker may be given: the handler, whether OCR runs, and
\* the tool that fails to run.
Configs ==
    {[h |-> "api_extract_content", ocr |-> FALSE, crash |-> c] :
        c \in {"none", "pdftotext"}}
    \cup {[h |-> "api_extract_content", ocr |-> TRUE, crash |-> c] :
        c \in {"none", "pdftotext", "rasterize", "ocr"}}
    \cup {[h |-> "audio_conversion", ocr |-> FALSE, crash |-> c] :
        c \in {"none", "convert_to_mp3", "set_mp3_meta_data", "convert_to_base64"}}
    \cup {[h |-> "make_png_thumbnail", ocr |-> FALSE, crash |-> c] :
        c \in {"none", "make_png_thumbnail_for_instance"}}

\* tempfile.NamedTemporaryFile: a file created under a name that no
\* existing file has (O_EXCL); the name of a deleted file may be drawn again.
mkstemp(existing) ==
    <<"tmp", CHOOSE n \in 1..(Cardinality(existing) + 1) :
                /\ <<"tmp", n>> \notin existing
                /\ \A k \in 1..(n - 1) : <<"tmp", k>> \in existing>>

\* A path common to every request, chosen without a uuid.
tmp_path_fixed(n) == <<"audio", 1>>

\* os.path.join("/tmp", "audio_" + uuid.uuid4().hex + ".mp3"): the n-th
\* uuid drawn differs from those drawn before.
tmp_path(n) == <<"audio", n + 1>>

Exists(path) == path \in DOMAIN disk

\* The file at path written with data, created when it does not exist.
Written(w, path, data) ==
    [q \in DOMAIN disk \cup {path} |->
        IF q = path
        THEN [owner |-> IF Exists(path) THEN disk[path].owner ELSE w, data |-> data]
        ELSE disk[q]]

Deleted(path) == [q \in DOMAIN disk \ {path} |-> disk[q]]

\* The worker touches a file that another worker created.
Foreign(w, path) == Exists(path) /\ disk[path].owner # w

Current(w) == Steps(proc[w])[proc[w].pc]

\* The worker is about to run a statement of the kind op, and the tool of
\* the statement does not fail to run.
Running(w, op) ==
    /\ proc[w].mode = "run"
    /\ Current(w).op = op
    /\ Current(w).tool # proc[w].crash

PathOf(w, sl) == proc[w].slot[sl]

\* A statement that needs a file that is not there raises.
Missing(w) ==
    LET st == Current(w)
    IN  \/ st.op \in {"read", "remove"} /\ ~Exists(PathOf(w, st.slot))
        \/ st.op = "write" /\ st.src # "memory" /\ ~Exists(PathOf(w, st.src))

Start(w) ==
    /\ proc[w].mode = "idle"
    /\ \E c \in Configs :
        proc' = [proc EXCEPT ![w] = [IdleProc EXCEPT !.h = c.h, !.ocr = c.ocr,
                                                     !.crash = c.crash, !.pc = 1,
                                                     !.mode = "run"]]
    /\ UNCHANGED <<disk, issued>>

Create(w) ==
    /\ Running(w, "create")
    /\ LET path == mkstemp(DOMAIN disk)
       IN  /\ disk' = Written(w, path, 0)
           /\ proc' = [proc EXCEPT ![w].slot[Current(w).slot] = path,
                                   ![w].pc = @ + 1]
    /\ UNCHANGED issued

NameIt(w) ==
    /\ Running(w, "name")
    /\ proc' = [proc EXCEPT ![w].slot[Current(w).slot] = tmp_path(issued),
                            ![w].pc = @ + 1]
    /\ issued' = issued + 1
    /\ UNCHANGED disk

Write(w) ==
    /\ Running(w, "write")
    /\ ~Missing(w)
    /\ LET st == Current(w)
           path == PathOf(w, st.slot)
           data == IF st.src = "memory" THEN w ELSE disk[PathOf(w, st.src)].data
           crossed == \/ Foreign(w, path)
                      \/ st.src # "memory" /\ Foreign(w, PathOf(w, st.src))
       IN  /\ disk' = Written(w, path, data)
           /\ proc' = [proc EXCEPT ![w].pc = @ + 1,
                                   ![w].trespass = @ \/ crossed]
    /\ UNCHANGED issued

Read(w) ==
    /\ Running(w, "read")
    /\ ~Missing(w)
    /\ LET path == PathOf(w, Current(w).slot)
       IN  proc' = [proc EXCEPT ![w].got = disk[path].data,
                                ![w].pc = @ + 1,
                                ![w].trespass = @ \/ Foreign(w, path)]
    /\ UNCHANGED <<disk, issued>>

\* The with block of a NamedTemporaryFile is left: the file is deleted.
Close(w) ==
    /\ Running(w, "close")
    /\ LET sl == Current(w).slot
           path == PathOf(w, sl)
       IN  /\ disk' = Deleted(path)
           /\ proc' = [proc EXCEPT ![w].slot[sl] = NoPath,
                                   ![w].pc = @ + 1,
                                   ![w].trespass = @ \/ Foreign(w, path)]
    /\ UNCHANGED issued

\* os.remove(tmp_path); the variable keeps the path.
Remove(w) ==
    /\ Running(w, "remove")
    /\ ~Missing(w)
    /\ LET path == PathOf(w, Current(w).slot)
       IN  /\ disk' = Deleted(path)
           /\ proc' = [proc EXCEPT ![w].pc = @ + 1,
                                   ![w].trespass = @ \/ Foreign(w, path)]
    /\ UNCHANGED issued

\* The tool of the statement fails to run, or the file it needs is gone.  A
\* tool that fails while it writes may have left a part of its output.
Fail(w) ==
    /\ proc[w].mode = "run"
    /\ Current(w).tool = proc[w].crash \/ Missing(w)
    /\ proc' = [proc EXCEPT ![w].mode = "raised"]
    /\ \/ disk' = disk
       \/ /\ Current(w).op = "write"
          /\ ~Missing(w)
          /\ disk' = Written(w, PathOf(w, Current(w).slot), w)
    /\ UNCHANGED issued

\* The exception leaves the with blocks of extract_content or
\* make_png_thumbnail, the inner one first; each deletes its file.
Unwind(w) ==
    /\ proc[w].mode = "raised"
    /\ proc[w].h # "audio_conversion"
    /\ \E sl \in {"tiff", "upload"} :
        /\ PathOf(w, sl) # NoPath
        /\ sl = "upload" => PathOf(w, "tiff") = NoPath
        /\ disk' = Deleted(PathOf(w, sl))
        /\ proc' = [proc EXCEPT ![w].slot[sl] = NoPath,
                                ![w].trespass = @ \/ Foreign(w, PathOf(w, sl))]
    /\ UNCHANGED issued

\* No with block is left to leave: the exception reaches the framework.
Escape(w) ==
    /\ proc[w].mode = "raised"
    /\ proc[w].h # "audio_conversion"
    /\ \A sl \in {"tiff", "upload"} : PathOf(w, sl) = NoPath
    /\ proc' = [proc EXCEPT ![w].mode = "done", ![w].status = INTERNAL_SERVER_ERROR]
    /\ UNCHANGED <<disk, issued>>

\* An except clause that answers without removing the file.
CatchKept(w) ==
    /\ proc[w].mode = "raised"
    /\ proc[w].h = "audio_conversion"
    /\ proc' = [proc EXCEPT ![w].mode = "done",
                            ![w].status = UNPROCESSABLE_ENTITY]
    /\ UNCHANGED <<disk, issued>>

\* except Exception of audio_conversion: the file at tmp_path is removed when
\* it exists, and the answer is the message with the status 422.
Catch(w) ==
    /\ proc[w].mode = "raised"
    /\ proc[w].h = "audio_conversion"
    /\ LET path == PathOf(w, "mp3")
       IN  /\ disk' = IF Exists(path) THEN Deleted(path) ELSE disk
           /\ proc' = [proc EXCEPT ![w].mode = "done",
                                   ![w].status = UNPROCESSABLE_ENTITY,
                                   ![w].trespass = @ \/ Foreign(w, path)]
    /\ UNCHANGED issued

Respond(w) ==
    /\ Running(w, "respond")
    /\ proc' = [proc EXCEPT ![w].mode = "done", ![w].status = HTTP_OK]
    /\ UNCHANGED <<disk, issued>>

NextConc ==
    \E w \in Workers :
        \/ Start(w) /\ UNCHANGED seqvars
        \/ Create(w) /\ UNCHANGED seqvars
        \/ NameIt(w) /\ UNCHANGED seqvars
        \/ Write(w) /\ UNCHANGED seqvars
        \/ Read(w) /\ UNCHANGED seqvars
        \/ Close(w) /\ UNCHANGED seqvars
        \/ Remove(w) /\ UNCHANGED seqvars
        \/ Fail(w) /\ UNCHANGED seqvars
        \/ Unwind(w) /\ UNCHANGED seqvars
        \/ Escape(w) /\ UNCHANGED seqvars
        \/ Catch(w) /\ UNCHANGED seqvars
        \/ Respond(w) /\ UNCHANGED seqvars

SpecConc == Init /\ [][NextConc]_vars

---------------------------------------------------------------------------
(* Vocabulary of the properties *)

\* The extraction endpoints that choose an extractor by extension.
RoutedHandlers == {"api_extract_content", "server_extract_content", "extract_doc_content"}

ExtractionHandlers == RoutedHandlers \cup {"extract_pdf"}

DjangoHandlers ==
    {"extract_pdf", "image_to_pdf", "extract_doc_content", "make_png_thumbnail",
     "page_count", "extract_mime_type", "extract_mime_from_buffer", "extract_extension",
     "pdf_to_text", "images_to_pdf", "fetch_audio_duration", "convert_audio",
     "embed_text"}

Extractors == {"pdftotext"} \cup NonPdfFormats

\* A validated request for the extraction of a pdf.
PdfExtraction ==
    /\ handler \in ExtractionHandlers
    /\ req.valid = "ok"
    /\ (handler \in RoutedHandlers => split_last(req.filename) = "pdf")

\* A validated request of a routed endpoint, with its routing extension.
RoutedExtraction == handler \in RoutedHandlers /\ req.valid = "ok"

OcrInvoked == "ocr" \in Range(calls)

\* The tool named in the request was invoked, and so failed to run.
ToolRaised == req.crash \in Range(calls)

PrimaryBlank == Len(Strip(req.primary.content)) = 0

MarkedByOcr == "extracted_by_ocr" \in resp.fields /\ resp.byocr

HasExitCode == resp.fields \cap {"error_code", "returncode"} # {}

ExitCodeNonzero == HasExitCode /\ resp.code.v # 0

\* The extractor the request started with, "none" when it started none.
FirstExtractor ==
    IF calls # <<>> /\ calls[1] \in Extractors THEN calls[1] ELSE "none"

ExtractorFor(extension) ==
    IF extension = "pdf" THEN "pdftotext"
    ELSE IF extension \in NonPdfFormats THEN extension
    ELSE "none"

---------------------------------------------------------------------------
(* C1 *)

\* C1: for a pdf extraction request in which every tool runs, the OCR
\* extractor is invoked if and only if the caller permitted OCR and the
\* primary output is empty or whitespace-only; when the primary output has a
\* non-whitespace character OCR is not invoked and the result is not marked
\* as extracted by OCR.  The Flask handlers break it: see C2.
C1_OcrIffPermittedAndBlank ==
    (PdfExtraction /\ req.crash = "none") =>
        /\ OcrInvoked <=> (CallerPermitsOcr(req) /\ PrimaryBlank)
        /\ ~PrimaryBlank => (~OcrInvoked /\ ~MarkedByOcr)

---------------------------------------------------------------------------
(* C2 *)

\* C2: for a pdf whose primary extraction is blank, a caller that disallows
\* OCR (flag sent as false, or absent) gets no OCR invocation, empty content,
\* a nonzero exit code and extracted_by_ocr = false.  The Flask handlers
\* take the text "False" for a true value and run OCR.
C2_NoOcrWhenDisallowed ==
    (PdfExtraction /\ req.crash = "none" /\ PrimaryBlank /\ req.flag \in {"False", Absent}) =>
        /\ ~OcrInvoked
        /\ resp.content = <<>>
        /\ ExitCodeNonzero
        /\ ~MarkedByOcr

---------------------------------------------------------------------------
(* C3 *)

IsUnableDiagnostic(e) ==
    e.t = "str" /\ e.v \in {"Unable to extract document content",
                            "Unable to extract document content."}

\* C3: when OCR ran on a pdf and returned empty text, the request ends with
\* empty content, the diagnostic "unable to extract document content" in
\* the error field, a nonzero exit code, and no extractor is invoked after
\* OCR.  The legacy server returns the diagnostic as the content.
C3_EmptyOcrIsTerminal ==
    (PdfExtraction /\ OcrInvoked /\ ~ToolRaised /\ req.ocr.content = <<>>) =>
        /\ resp.content = <<>>
        /\ "err" \in resp.fields /\ IsUnableDiagnostic(resp.err)
        /\ ExitCodeNonzero
        /\ \A i \in 1..Len(calls) :
              calls[i] = "ocr" => \A j \in (i + 1)..Len(calls) :
                                      calls[j] \notin Extractors \cup {"ocr", "rasterize"}

---------------------------------------------------------------------------
(* C4 *)

\* C4: a request whose routing extension is none of pdf, doc, docx, html,
\* txt, wpd invokes no extractor and no OCR and gets a success-status result
\* with empty content, the unknown-extension diagnostic and a nonzero exit
\* code; nothing is raised.  The legacy server returns None, which the
\* framework answers with a server error.
C4_UnknownExtensionResult ==
    (RoutedExtraction /\ req.crash = "none" /\ split_last(req.filename) \notin Formats) =>
        /\ Range(calls) \cap (Extractors \cup {"ocr", "rasterize"}) = {}
        /\ resp.raised = "none"
        /\ resp.status = HTTP_OK
        /\ resp.content = <<>>
        /\ "err" \in resp.fields
        /\ resp.err = ErrStr("Unable to extract content due to unknown extension")
        /\ ExitCodeNonzero

---------------------------------------------------------------------------
(* C5 *)

\* The diagnostic of a response is the one a tool returned, as it stands or
\* as its str().
SameDiagnostic(e, d) == e = d \/ e = PyStrErr(d)

\* C5: a request with extension doc, docx, html, txt or wpd invokes exactly
\* one format extractor, never OCR or rasterization, is not marked as
\* extracted by OCR, and returns the content, diagnostic and exit code of
\* that extractor (an exit code counts as the same whether sent as an int or
\* as its decimal string).  The Django handler returns no exit code: see C7.
C5_NonPdfSingleExtractor ==
    (RoutedExtraction /\ req.crash = "none" /\ split_last(req.filename) \in NonPdfFormats) =>
        /\ Cardinality({i \in 1..Len(calls) : calls[i] \in Extractors}) = 1
        /\ Range(calls) \cap {"ocr", "rasterize"} = {}
        /\ ~MarkedByOcr
        /\ resp.content = req.primary.content
        /\ "err" \in resp.fields /\ SameDiagnostic(resp.err, req.primary.err)
        /\ HasExitCode /\ resp.code.v = req.primary.rc

---------------------------------------------------------------------------
(* C6 *)

RoutingKey ==
    IF handler = "extract_doc_content" THEN DocumentForm(req).extension
    ELSE split_last(req.filename)

---------------------------------------------------------------------------
(* C7 *)

\* C7: every validated extraction request answered by a routed handler
\* returns a result with the fields content, error, exit code and
\* extracted_by_ocr, whichever branch was taken.  The Django handler has no
\* exit code, the Flask API no extracted_by_ocr, and the legacy server a
\* different shape on each branch.
C7_UniformResultFields ==
    (RoutedExtraction /\ ~ToolRaised) =>
        /\ "content" \in resp.fields
        /\ "err" \in resp.fields
        /\ HasExitCode
        /\ "extracted_by_ocr" \in resp.fields

---------------------------------------------------------------------------
(* C8 *)

\* C8: when extract_doc_content or extract_pdf returns, the upload written
\* to disk for the request no longer exists, also when validation failed or
\* an extractor or the page count raised.  Neither handler removes the file
\* on the raising paths.
C8_UploadRemoved ==
    handler \in {"extract_doc_content", "extract_pdf"} => "upload" \notin files

---------------------------------------------------------------------------
(* C9 *)

\* C9: in every Django handler a request that fails form validation is
\* rejected with a client-error status and a plain-text reason, before any
\* tool is invoked.  images_to_pdf raises BadRequest instead, which is
\* answered with the framework's error page.
C9_InvalidRejectedAsText ==
    (handler \in DjangoHandlers /\ req.valid # "ok") =>
        /\ resp.status \in 400..499
        /\ resp.kind = "text" /\ resp.msg # ""
        /\ calls = <<>>

---------------------------------------------------------------------------
(* C10 *)

\* C10: when a tool invoked during extraction raises, the request ends with
\* a server-error status, never a client error or a success.  extract_pdf
\* catches the exception and answers 406.
C10_ToolFailureIsServerError ==
    (handler \in ExtractionHandlers /\ ToolRaised) => resp.status \in 500..599

---------------------------------------------------------------------------
(* C11 *)

\* The value a client reads from the body with response.json(): the digits
\* of an int are an int, the characters None are no JSON value.
response_json(body) ==
    CASE body.t = "str(int)" -> [t |-> "int", v |-> body.v]
      [] body.t = "str(None)" -> [t |-> "JSONDecodeError", v |-> 0]
      [] OTHER -> body

\* A response that carries a page count.
PageCountReturned ==
    /\ handler \in {"page_count", "api_page_count", "extract_doc_content"}
    /\ resp.status = HTTP_OK
    /\ resp.page_count.t # "absent"

\* C11: the page count returned for a request is a non-negative integer
\* when the extension is pdf and null for every other extension, in the
\* page-count endpoints and in the page_count field of an extraction
\* result.  The Django page-count endpoint answers the text None.
C11_PageCountByExtension ==
    PageCountReturned =>
        LET count == response_json(resp.page_count)
        IN  IF split_last(req.filename) = "pdf"
            THEN count.t = "int" /\ count.v >= 0
            ELSE count.t = "null"

---------------------------------------------------------------------------
(* C12 *)

\* A validated request of extract_extension whose sniffer answered.
Resolved == handler = "extract_extension" /\ req.valid = "ok" /\ req.crash = "none"

ReturnedExtension(e) ==
    resp.status = HTTP_OK /\ resp.kind = "text" /\ resp.msg = e

---------------------------------------------------------------------------
(* C13 *)

ResolverHandlers == {"extract_extension", "extract_mime_from_buffer"}

\* The MIME whose extension the handler answers with: for extract_extension
\* the one of the override rule or of the sniffer, replaced by the one of
\* the stripped content after a ".bin".
ResolvedMime ==
    IF handler = "extract_mime_from_buffer" THEN req.mime
    ELSE IF guess_extension(req.env, override_mime(req).mime) = ".bin"
         THEN resniffed_mime(req)
    ELSE override_mime(req).mime

\* C13: when the resolved MIME has no entry in the MIME-to-extension table,
\* the resolver endpoints return normally with a null or empty extension;
\* they never raise and never return an error status.  extract_extension
\* calls lower() on the None and the request ends with a 500.
C13_UnmappedMimeReturnsNull ==
    (/\ handler \in ResolverHandlers
     /\ req.valid = "ok" /\ req.crash = "none"
     /\ guess_extension(req.env, ResolvedMime) = PyNone)
        => /\ resp.status = HTTP_OK
           /\ resp.raised = "none"
           /\ IF handler = "extract_extension" THEN resp.msg \in {PyNone, ""}
              ELSE resp.extension \in {PyNone, ""}

---------------------------------------------------------------------------
(* C14 *)

\* The keys of the table of fixes.
FixedAway == {".htm", ".xml", ".wsdl", ".ksh", ".asf", ".dot"}

\* extract_extension returned an extension.
ExtensionReturned == Resolved /\ resp.status = HTTP_OK /\ resp.kind = "text"

---------------------------------------------------------------------------
(* C15 *)

\* The handlers that generate a pdf and return it.
PdfGenerators ==
    {"image_to_pdf", "images_to_pdf", "embed_text",
     "split_single_tiff_into_pdf_from_url", "make_pdf_from_images", "make_pdf_from_urls"}

PdfReturned == handler \in PdfGenerators /\ resp.status = HTTP_OK /\ resp.kind = "pdf"

\* C15: every handler that generates a pdf and returns it passes the bytes
\* through metadata stripping before the response is built.  embed_text
\* returns what PdfFileWriter wrote.
C15_GeneratedPdfStripped ==
    PdfReturned =>
        /\ resp.pdf.stripped
        /\ \E i \in 1..Len(calls) :
              calls[i] \in {"strip_metadata_from_bytes", "strip_metadata_from_path"}

---------------------------------------------------------------------------
(* C16 *)

\* A request for one pdf from a list of image URLs, accepted by the form (or
\* parsed from the JSON), in which every tool ran.
UrlsConverted ==
    /\ handler \in {"images_to_pdf", "make_pdf_from_urls"}
    /\ req.valid = "ok" /\ req.crash = "none"

\* C16: images_to_pdf on an ordered list of K image URLs, for every K from 0
\* up to MaxUrls, produces a pdf with exactly K pages, page i being the
\* image of the i-th URL.  The Django handler indexes the empty list.
C16_PagesAreUrlsInOrder ==
    UrlsConverted =>
        /\ resp.status = HTTP_OK /\ resp.kind = "pdf"
        /\ Len(resp.pdf.pages) = Len(req.urls)
        /\ \A i \in 1..Len(req.urls) : resp.pdf.pages[i] = req.urls[i]

---------------------------------------------------------------------------
(* C17 *)

AudioConverters == {"convert_audio", "audio_conversion"}

TagsWritten == "set_mp3_meta_data" \in Range(calls)

\* The response carries audio: the mp3 itself or its base64 text.
AudioReturned == resp.kind = "audio" \/ "audio_b64" \in resp.fields

---------------------------------------------------------------------------
(* C18 *)

FlaskConverters == {"audio_conversion", "make_pdf_from_images", "make_pdf_from_urls"}

\* The request could not be read, or a tool invoked for it raised.
ConversionFailed == req.valid # "ok" \/ ToolRaised

\* C18: in the Flask API a failure inside a conversion endpoint is answered
\* with status 422; the exception does not escape the handler and the
\* response is neither a 200 nor a 500.  The two pdf endpoints return the
\* bare int 422, which Flask cannot turn into a response.
C18_ConversionFailureIs422 ==
    (handler \in FlaskConverters /\ ConversionFailed) =>
        /\ resp.status = UNPROCESSABLE_ENTITY
        /\ resp.raised = "none"

---------------------------------------------------------------------------
(* C19 *)

ThumbnailHandlers == {"make_png_thumbnail", "api_make_png_thumbnail"}

\* The rasterizer ran and reported failure: a nonzero exit code, or no
\* image, as for an empty or zero-page pdf.
RasterizerFailed ==
    /\ req.valid = "ok" /\ req.crash = "none"
    /\ (req.primary.rc # 0 \/ req.primary.content = <<>>)

\* C19: the thumbnail endpoint answers with a server-error status whenever
\* the rasterizer reports failure; it never returns a success status with
\* an empty image body.  Both handlers keep the image and drop the
\* diagnostic and the exit code.
C19_ThumbnailFailureIsServerError ==
    handler \in ThumbnailHandlers =>
        /\ RasterizerFailed => resp.status \in 500..599
        /\ ~(resp.status = HTTP_OK /\ resp.kind = "image" /\ resp.content = <<>>)

---------------------------------------------------------------------------
(* C20 *)

\* A validated batch thumbnail request has been answered.
BatchRequested ==
    /\ handler # "idle"
    /\ "path" \in DOMAIN req
    /\ req.path = "convert/pdf/thumbnails/"
    /\ req.valid = "ok"

\* The name of the archive entry for a page index, 1-indexed.
ThumbName(page) == <<"thumb-", page, ".png">>

\* C20: a batch thumbnail request for N page indices on a pdf with at least
\* N pages is served by a routed handler and produces an archive with
\* exactly N entries named thumb-<page>.png; a requested page beyond the
\* page count yields a reported error.  No route and no view serve it.
C20_BatchThumbnailsServed ==
    BatchRequested =>
        /\ handler # "page_not_found"
        /\ IF \A i \in 1..Len(req.indices) : req.indices[i] <= req.pages
           THEN /\ resp.status = HTTP_OK /\ resp.kind = "archive"
                /\ Len(resp.content) = Len(req.indices)
                /\ \A i \in 1..Len(req.indices) :
                      resp.content[i] = ThumbName(req.indices[i])
           ELSE resp.status >= 400 /\ resp.msg # ""

---------------------------------------------------------------------------
(* C21 *)

\* The uploaded audio could not be read: the body of the handler raised.
AudioUnreadable ==
    /\ handler = "fetch_audio_duration"
    /\ req.valid = "ok"
    /\ audio_exception(req) # "none"

\* C21: fetch_audio_duration never lets an exception escape; when the
\* uploaded file is corrupt or unreadable the body of the response is
\* exactly the message of the underlying error, and the temporary copy of
\* the upload is removed on that path as on the success path.
C21_DurationErrorIsMessage ==
    handler = "fetch_audio_duration" =>
        /\ resp.raised = "none" /\ resp.status < INTERNAL_SERVER_ERROR
        /\ "tmp" \notin files
        /\ AudioUnreadable =>
              resp.kind = "text" /\ resp.msg = audio_exception(req)

\* An unreadable upload: eyed3.load answered None, the text of the
\* AttributeError is the body, the temporary copy is gone.
C21_Witness ==
    /\ AudioUnreadable
    /\ req.audio = "unreadable" /\ req.crash = "none"
    /\ calls = <<"eyed3_load">>
    /\ resp.msg = "'NoneType' object has no attribute 'info'"
    /\ files = {}

---------------------------------------------------------------------------
(* C22 *)

\* embed_text ran every tool on a validated pdf of at least one page.
TextEmbedded ==
    /\ handler = "embed_text"
    /\ req.valid = "ok" /\ req.crash = "none"
    /\ req.pages >= 1

\* C22: embed_text returns a pdf with exactly as many pages as the uploaded
\* pdf, in the original order, output page i being original page i merged
\* with the text layer built from the OCR data for page i, for every page
\* count from 1 up to MaxPages.
C22_EmbeddedPagesInOrder ==
    TextEmbedded =>
        /\ resp.status = HTTP_OK /\ resp.kind = "pdf"
        /\ Len(resp.pdf.pages) = req.pages
        /\ \A i \in 1..req.pages : resp.pdf.pages[i] = <<i, i>>

\* A pdf of two pages, returned as two pages in their order.
C22_Witness ==
    /\ TextEmbedded
    /\ req.pages = 2
    /\ resp.pdf.pages = <<(<<1, 1>>), (<<2, 2>>)>>

---------------------------------------------------------------------------
(* C23 *)

\* The request the worker handles, as the handler running alone is given it.
AloneReq(p) ==
    IF p.h = "audio_conversion"
    THEN [valid |-> "ok", audio |-> "mp3", crash |-> p.crash]
    ELSE ExtractionReq(<<"f", "pdf">>, IF p.ocr THEN "True" ELSE Absent, "ok", "pdf",
                       DefaultOut, DefaultOut, p.crash, 0)

\* The status the handler answers with when no other request is running.
AloneStatus(p) ==
    CASE p.h = "api_extract_content" -> api_extract_content(AloneReq(p)).resp.status
      [] p.h = "audio_conversion" -> audio_conversion(AloneReq(p)).resp.status
      [] p.h = "make_png_thumbnail" -> make_png_thumbnail(AloneReq(p)).resp.status
      [] OTHER -> 0

\* The temporary files the worker holds a name of while it handles a request.
LivePaths(w) ==
    IF proc[w].mode \in {"run", "raised"}
    THEN {proc[w].slot[sl] : sl \in Slots} \ {NoPath}
    ELSE {}

\* C23: in every interleaving of two concurrent requests (audio_conversion,
\* extract_content, make_png_thumbnail) each request answers as it does when
\* it runs alone, from bytes of its own upload, no request reads, overwrites
\* or deletes a temporary file the other created, and the temporary paths of
\* the two requests are distinct.
C23_ConcurrentRequestsIndependent ==
    /\ \A w \in Workers :
        /\ ~proc[w].trespass
        /\ proc[w].got \in {0, w}
        /\ proc[w].mode = "done" => proc[w].status = AloneStatus(proc[w])
    /\ \A w, v \in Workers : w # v => LivePaths(w) \cap LivePaths(v) = {}

\* One request has answered from its own bytes while the other, started
\* before that, still holds a temporary file on disk.
C23_Witness ==
    /\ proc[1].mode = "done"
    /\ proc[1].status = HTTP_OK
    /\ proc[1].got = 1
    /\ proc[2].mode = "run"
    /\ \E path \in LivePaths(2) : Exists(path) /\ disk[path].data = 2

---------------------------------------------------------------------------
(* C25 *)

\* The Flask handlers that extract the text of an upload.
FlaskExtractors == {"api_extract_content", "server_extract_content"}

FlaskPdfExtraction == handler \in FlaskExtractors /\ routing_extension(req) = "pdf"

\* The number of invocations of the tool in the request.
Invocations(tool) == Cardinality({i \in 1..Len(calls) : calls[i] = tool})

\* C25: within one PDF extraction request of the Flask handlers the primary
\* extractor is invoked exactly once, rasterization and OCR at most once
\* each and only after the primary extractor has returned, and nothing is
\* invoked after a tool has failed: there are no retries.
C25_EscalationSequentialNoRetry ==
    FlaskPdfExtraction =>
        /\ Invocations("pdftotext") = 1
        /\ calls[1] = "pdftotext"
        /\ Invocations("rasterize") <= 1
        /\ Invocations("ocr") <= 1
        /\ \A i, j \in 1..Len(calls) :
              calls[i] = "rasterize" /\ calls[j] = "ocr" => i < j
        /\ \A i \in 1..Len(calls) : calls[i] = req.crash => i = Len(calls)

\* The rasterizer failed after the primary extractor had returned blank
\* text: OCR was never started and nothing was run again.
C25_Witness ==
    /\ FlaskPdfExtraction
    /\ req.crash = "rasterize"
    /\ calls = <<"pdftotext", "rasterize">>

---------------------------------------------------------------------------
(* C26 *)

\* The override rules in the order of lines 197-210: how the label is
\* tested, the text it is tested against, and the extension the handler
\* answers with for the MIME of the rule.
OverrideRules ==
    <<[test |-> "prefix", text |-> "Composite Document File V2 Document", ext |-> ".doc"],
      [test |-> "exact", text |-> "(Corel/WP)", ext |-> ".wpd"],
      [test |-> "exact", text |-> "C source, ASCII text", ext |-> ".txt"],
      [test |-> "prefix", text |-> "WordPerfect document", ext |-> ".wpd"],
      [test |-> "audio", text |-> "", ext |-> ".mp3"]>>

Matches(rule, label) ==
    CASE rule.test = "prefix" -> StartsWith(label, rule.text)
      [] rule.test = "exact" -> label = <<rule.text>>
      [] OTHER -> AudioPattern(label)

\* The first rule the label matches, 0 when it matches none.
FirstRule(label) ==
    LET hits == {i \in 1..Len(OverrideRules) : Matches(OverrideRules[i], label)}
    IN  IF hits = {} THEN 0 ELSE CHOOSE i \in hits : \A j \in hits : i <= j

\* C26: extract_extension tries the override rules in a fixed order
\* (compound-document prefix, exact "(Corel/WP)", exact "C source, ASCII
\* text", "WordPerfect document" prefix, audio pattern); the first rule the
\* label matches decides the answer and the sniffer is not asked for a MIME;
\* it is asked for a MIME only when no rule matches.
C26_FirstMatchingRuleDecides ==
    Resolved =>
        IF FirstRule(req.label) # 0
        THEN /\ ReturnedExtension(OverrideRules[FirstRule(req.label)].ext)
             /\ calls = <<"magic_from_buffer">>
        ELSE /\ Len(calls) >= 2
             /\ calls[2] = "magic_from_buffer"

\* A label that matches both the compound-document rule and the audio
\* pattern: the earlier rule decided.
C26_Witness ==
    /\ Resolved
    /\ FirstRule(req.label) = 1
    /\ Matches(OverrideRules[5], req.label)
    /\ ReturnedExtension(".doc")
    /\ calls = <<"magic_from_buffer">>

---------------------------------------------------------------------------
(* C27 *)

\* The extension of line 214, before the ".obj" and ".bin" branches.
TableExtension == guess_extension(req.env, override_mime(req).mime)

\* The bytes "PDF" stand within the first 40 bytes of the content.
PdfInHead(b) ==
    \E i \in 1..38 :
        i + 2 <= Len(b) /\ SubSeq(b, i, i + 2) = <<"P", "D", "F">>

\* C27: when the table yields ".obj", extract_extension returns ".pdf" if
\* the bytes "PDF" occur within the first 40 bytes of the content and ".wpd"
\* otherwise, for every content; the check itself never fails.  The check is
\* "PDF" in content[0:40] with a str on the left and bytes on the right: it
\* raises a TypeError for every content.
C27_ObjResolvedByPdfHead ==
    (Resolved /\ TableExtension = ".obj") =>
        /\ resp.raised = "none"
        /\ ReturnedExtension(IF PdfInHead(req.content) THEN ".pdf" ELSE ".wpd")

---------------------------------------------------------------------------
(* C28 *)

\* The content with the marker cut from its end when it ends with it, and
\* unchanged otherwise.
TrailingMarkerRemoved(b) ==
    LET n == Len(b) - Len(EofMarker)
    IN  IF n >= 0 /\ SubSeq(b, n + 1, Len(b)) = EofMarker
        THEN SubSeq(b, 1, n) ELSE b

\* C28: when the extension is ".bin", the content that is sniffed again
\* differs from the original only by the removal of a trailing "%%EOF\r":
\* no byte is removed from its start or its middle, and the result of the
\* second sniff goes through the same table of fixes.  bytes.strip removes
\* every leading and trailing byte that is one of %, E, O, F, CR.
C28_ResniffStripsTrailingMarkerOnly ==
    (Resolved /\ TableExtension = ".bin") =>
        /\ resniffed_content(req) = TrailingMarkerRemoved(req.content)
        /\ resp.status = HTTP_OK =>
              ReturnedExtension(Lower(fixes_get(guess_extension(req.env, resniffed_mime(req)))))

---------------------------------------------------------------------------
(* C29 *)

PdfToTextHandlers == {"pdf_to_text", "api_pdf_to_text"}

\* C29: for a valid uploaded PDF whose extractor ran, the pdf-to-text
\* endpoints (Django pdf_to_text, Flask pdf_to_text) return a JSON response
\* that carries the content and the err of the extractor; the handler does
\* not fail after the extractor has returned.  The Django handler passes
\* four positional arguments to JsonResponse and the Flask handler unpacks
\* three values into two names: both raise.
C29_PdfToTextReturnsJson ==
    (/\ handler \in PdfToTextHandlers
     /\ req.valid = "ok" /\ req.crash = "none")
        => /\ resp.raised = "none"
           /\ resp.status = HTTP_OK
           /\ resp.kind = "json"
           /\ {"content", "err"} \subseteq resp.fields
           /\ resp.content = req.primary.content

---------------------------------------------------------------------------
(* C30 *)

\* The temporary files on disk that the worker created.
FilesOf(w) == {path \in DOMAIN disk : disk[path].owner = w}

FlaskTempHandlers == {"api_extract_content", "audio_conversion"}

\* C30: in the Flask handlers extract_content and audio_conversion every
\* temporary file the handler created (the copy of the upload, the
\* rasterized tiff, the mp3) no longer exists when the handler returns, on
\* the success path and on every exception path, and the rasterized tiff
\* exists while the OCR extractor reads it.
C30_TempFilesGoneOnReturn ==
    \A w \in Workers :
        proc[w].h \in FlaskTempHandlers =>
            /\ proc[w].mode = "done" => FilesOf(w) = {}
            /\ (proc[w].mode = "run" /\ Current(w).tool = "ocr")
                   => Exists(PathOf(w, "tiff"))

\* audio_conversion has answered 422 after the tagging of the mp3 failed,
\* while the other request reached the OCR of its tiff.
C30_Witness ==
    /\ proc[1].h = "audio_conversion"
    /\ proc[1].crash = "set_mp3_meta_data"
    /\ proc[1].mode = "done"
    /\ proc[1].status = UNPROCESSABLE_ENTITY
    /\ FilesOf(1) = {}
    /\ proc[2].mode = "run"
    /\ Current(2).tool = "ocr"
    /\ Exists(PathOf(2, "tiff"))

====
